---- MODULE Spec2Model ----
(***************************************************************************)
(* Model of the JSON-file item store and its HTTP handlers.                *)
(*                                                                         *)
(* The source holds three revisions of the same program:                   *)
(*   "r1"  src/main.go lines 1-223      (no DatabaseMutex, map marshalled) *)
(*   "r2"  src/unnamed/part_000         (DatabaseMutex, path id and name)  *)
(*   "r3"  src/main.go lines 225-486    (DatabaseMutex, body item)         *)
(* The variable revision fixes, for a whole run, which one is running.     *)
(***************************************************************************)
EXTENDS Integers, Sequences, FiniteSets, TLC

\* ------------------------------------------------------------------ bounds
MaxRequests == 2   \* requests served in one run, each in its own goroutine
MaxId == 1         \* ids range over -1 .. MaxId
MaxFaults == 1     \* file-system calls the environment may fail in one run

\* net/http runs every request in a goroutine of its own; goroutine p serves
\* the p-th request to arrive
Procs == 1..MaxRequests
Ids == (0 - 1)..MaxId
Names == {"a", "b"}
Revisions == {"r1", "r2", "r3"}

\* ------------------------------------------------------------- data model
\* type Item struct { ID int; Name string }
Item(i, n) == [ID |-> i, Name |-> n]
Items == {Item(i, n) : i \in Ids, n \in Names}
\* the zero value of Item, what a Go map lookup yields for a missing key
ZeroItem == Item(0, "")

\* type ItemDict = map[int]Item ; a function whose domain is the key set
EmptyDict == [k \in {} |-> ZeroItem]
\* loadedItems[k] of Go: the zero Item when k is no key
Lookup(d, k) == IF k \in DOMAIN d THEN d[k] ELSE ZeroItem
\* loadedItems[k] = v
Insert(d, k, v) == [x \in (DOMAIN d) \cup {k} |-> IF x = k THEN v ELSE d[x]]
\* delete(loadedItems, k)
Remove(d, k) == [x \in (DOMAIN d) \ {k} |-> d[x]]

\* for _, item := range items { itemDict[item.ID] = item } : the last record wins
LastIndex(items, k) ==
    CHOOSE i \in 1..Len(items) :
        /\ items[i].ID = k
        /\ \A j \in 1..Len(items) : items[j].ID = k => j <= i
BuildDict(items) ==
    [k \in {items[i].ID : i \in 1..Len(items)} |-> items[LastIndex(items, k)]]

\* for _, item := range itemDict { items = append(items, item) } :
\* Go's map iteration order is unspecified, so every order of the keys
KeyOrders(d) ==
    {s \in [1..Cardinality(DOMAIN d) -> DOMAIN d] :
        \A i, j \in 1..Cardinality(DOMAIN d) : s[i] = s[j] => i = j}
ItemSlices(d) ==
    {[i \in 1..Cardinality(DOMAIN d) |-> d[s[i]]] : s \in KeyOrders(d)}

\* ------------------------------------------------------------ file contents
\* The bytes of ./db/data.json, by what encoding/json makes of them.
\*   json = "none"   : zero bytes (os.Create, or O_TRUNC before the write)
\*   json = "array"  : a JSON array of {"id","name"} objects, in order
\*   json = "object" : a JSON object keyed by id (json.Marshal of a map)
NoBytes == [json |-> "none", items |-> <<>>, obj |-> EmptyDict]
\* json.Marshal(items) with items []Item
MarshalSlice(items) == [json |-> "array", items |-> items, obj |-> EmptyDict]
\* json.Marshal(items) with items map[int]Item (revision r1)
MarshalMap(d) == [json |-> "object", items |-> <<>>, obj |-> d]
\* json.Unmarshal(bytedata, &items) with items []Item succeeds only on an array
UnmarshalOk(bytes) == bytes.json = "array"
UnmarshalItems(bytes) == bytes.items

\* the file system entry: present or not, and its bytes
NoFile == [exists |-> FALSE, bytes |-> NoBytes]
FileOf(bytes) == [exists |-> TRUE, bytes |-> bytes]

\* --------------------------------------------------------- request inputs
\* the id segment of the path: an integer, not an integer, or no such segment
IntSeg(i) == [kind |-> "int", val |-> i]
NotIntSeg == [kind |-> "notint", val |-> 0]
MissingSeg == [kind |-> "missing", val |-> 0]
IdSegs == {IntSeg(i) : i \in Ids} \cup {NotIntSeg, MissingSeg}
\* the request body: a JSON item, or not well-formed JSON
GoodBody(it) == [ok |-> TRUE, item |-> it]
Malformed == [ok |-> FALSE, item |-> ZeroItem]
Bodies == {GoodBody(it) : it \in Items} \cup {Malformed}
NoBody == Malformed

\* ------------------------------------------------------------------ state
VARIABLES
    revision,       \* which revision of the program runs
    mainPc,         \* main(): "exists", "create", "creating", "serving",
                    \*         "panicked"
    created,        \* main() found no file and CreateJsonFile made one
    file,           \* ./db/data.json
    DatabaseMutex,  \* jsonDatabase.DatabaseMutex: 0 free, else the holder
    jsonFileMutex,  \* jsonDatabase.jsonFileMutex: 0 free, else the holder
    pc,             \* per goroutine: position in its handler
    op,             \* per goroutine: "GET", "POST", "DELETE", "none"
    seg,            \* per goroutine: id segment of the request path
    id,             \* per goroutine: local id
    name,           \* per goroutine: local name (r1, r2)
    body,           \* per goroutine: request body
    loaded,         \* per goroutine: loadedItems
    status,         \* per goroutine: response status, 0 when none written
    resp,           \* per goroutine: item encoded into the response
    wrote,          \* per goroutine: the request overwrote the file
    overlap,        \* per goroutine: another request was in flight at its start
    seen,           \* per goroutine: collections persisted since its start
    preceded,       \* per goroutine: the requests that had returned at its start
    found,          \* per goroutine: the store as an upsert found it at its start
    ioErr,          \* per goroutine: "read" / "write" when its ReadJsonFile /
                    \*                WriteJsonFile returned an error, else "none"
    expect,         \* per goroutine: the status a one-at-a-time run gives it
    ideal,          \* the store of a run that serves the mutations one at a
                    \* time, in the order they locked DatabaseMutex
    faults          \* failures the file system may still produce

reqVars == <<pc, op, seg, id, name, body, loaded, status, resp, wrote, overlap,
            preceded, found, ioErr, expect>>
vars == <<revision, mainPc, created, file, DatabaseMutex, jsonFileMutex, reqVars,
          seen, ideal, faults>>

\* holder of a mutex while main() runs CreateJsonFile
MainHolder == 0 - 1

\* the revisions whose postItem and deleteItem lock DatabaseMutex
HasDatabaseMutex == revision \in {"r2", "r3"}

\* first WriteHeader wins: later http.Error calls do not change the status
SetStatus(cur, s) == IF cur = 0 THEN s ELSE cur

\* ./db/data.json before the process starts: absent, or an array an operator
\* seeded (any collection, written by ascending id; every other order of the
\* records comes about with the first save)
SeedDicts ==
    {d \in UNION {[K -> {Item(i, "a") : i \in Ids}] : K \in SUBSET Ids} :
        \A k \in DOMAIN d : d[k].ID = k}
Ascending(items) ==
    \A i, j \in 1..Len(items) : i < j => items[i].ID < items[j].ID
SeededFiles ==
    {FileOf(MarshalSlice(items)) :
        items \in {s \in UNION {ItemSlices(d) : d \in SeedDicts} : Ascending(s)}}

\* what ReadJsonFile makes of a file: an error, or the collection
NoStore == [ok |-> FALSE, d |-> EmptyDict]
StoreOf(f) ==
    IF f.exists /\ UnmarshalOk(f.bytes)
    THEN [ok |-> TRUE, d |-> BuildDict(UnmarshalItems(f.bytes))]
    ELSE NoStore

Init ==
    /\ revision \in Revisions
    /\ mainPc = "exists"
    /\ created = FALSE
    /\ file \in {NoFile} \cup SeededFiles
    /\ DatabaseMutex = 0
    /\ jsonFileMutex = 0
    /\ pc = [p \in Procs |-> "idle"]
    /\ op = [p \in Procs |-> "none"]
    /\ seg = [p \in Procs |-> MissingSeg]
    /\ id = [p \in Procs |-> 0]
    /\ name = [p \in Procs |-> ""]
    /\ body = [p \in Procs |-> NoBody]
    /\ loaded = [p \in Procs |-> EmptyDict]
    /\ status = [p \in Procs |-> 0]
    /\ resp = [p \in Procs |-> ZeroItem]
    /\ wrote = [p \in Procs |-> FALSE]
    /\ overlap = [p \in Procs |-> FALSE]
    /\ seen = [p \in Procs |-> {}]
    /\ preceded = [p \in Procs |-> {}]
    /\ found = [p \in Procs |-> NoStore]
    /\ ioErr = [p \in Procs |-> "none"]
    /\ expect = [p \in Procs |-> 0]
    /\ ideal = StoreOf(file)
    /\ faults = MaxFaults


\* ------------------------------------------------------------------ main()
\* if !jsonDatabase.Exists()
MainExists ==
    /\ mainPc = "exists"
    /\ mainPc' = IF file.exists THEN "serving" ELSE "create"
    /\ UNCHANGED <<revision, created, file, DatabaseMutex, jsonFileMutex,
                   reqVars, seen, ideal, faults>>

\* j.jsonFileMutex.Lock() blocks until the mutex is free; as a mutant: a
\* Lock() that does not wait
FileMutexNotWaitedFor == TRUE
FileMutexFree == jsonFileMutex = 0

\* CreateJsonFile: j.jsonFileMutex.Lock()
CreateLock ==
    /\ mainPc = "create"
    /\ FileMutexFree
    /\ jsonFileMutex' = MainHolder
    /\ mainPc' = "creating"
    /\ UNCHANGED <<revision, created, file, DatabaseMutex, reqVars, seen,
                   ideal, faults>>

\* what os.Create leaves behind: a file of zero bytes
CreatedFile == FileOf(NoBytes)

\* CreateJsonFile: os.Create succeeds or fails; main panics on the error,
\* otherwise goes on to http.ListenAndServe
\* main() after CreateJsonFile returned: panic(err) on an error; as a
\* mutant: a main() that drops the error
MainDropsCreateError(ok) == "serving"
MainAfterCreate(ok) == IF ok THEN "serving" ELSE "panicked"
CreateJsonFile ==
    /\ mainPc = "creating"
    /\ \E ok \in BOOLEAN :
        /\ file' = IF ok THEN CreatedFile ELSE file
        /\ mainPc' = MainAfterCreate(ok)
        /\ created' = ok
    /\ jsonFileMutex' = 0
    /\ ideal' = StoreOf(file')
    /\ UNCHANGED <<revision, DatabaseMutex, reqVars, seen, faults>>

\* ---------------------------------------------------------------- helpers
InFlight(p) == pc[p] \notin {"idle", "done"}
Mutating(p) == op[p] \in {"POST", "DELETE"}

\* the collection the file holds, when it holds a complete JSON array
Persisted == BuildDict(UnmarshalItems(file.bytes))
FileReadable == file.exists /\ UnmarshalOk(file.bytes)

\* defer jsonDatabase.DatabaseMutex.Unlock(); as a mutant: a handler that
\* returns without unlocking
KeepDatabaseMutex(p) == DatabaseMutex
ReleaseDatabaseMutex(p) == IF DatabaseMutex = p THEN 0 ELSE DatabaseMutex

\* the handler returns: its deferred unlock runs
Return(p, st, it) ==
    /\ pc' = [pc EXCEPT ![p] = "done"]
    /\ status' = [status EXCEPT ![p] = st]
    /\ resp' = [resp EXCEPT ![p] = it]
    /\ DatabaseMutex' = ReleaseDatabaseMutex(p)

\* ------------------------------------------------------- request arrival
\* requestRouter dispatches to the handler, which first extracts its
\* parameters: extractPathParameters (r3), extractParams (r1, r2), and
\* in r3's postItem the body.
\* the value of id after parameter extraction
ParsedId(s) == IF s.kind = "int" THEN s.val ELSE 0

\* does parameter extraction end the request, and with which status
\* (0: the handler panicked on splited[...] and nothing was written)
\* (as a mutant: handlers that go on after a failed extraction)
NeverRejected(o, s, b) == FALSE
RejectedAtStart(o, s, b) ==
    CASE revision = "r3" -> IF o = "POST" THEN ~b.ok ELSE s.kind # "int"
      [] revision = "r2" -> s.kind # "int"
      [] OTHER -> s.kind = "missing"
StartStatus(o, s, b) ==
    CASE revision = "r1" /\ s.kind = "missing" -> 0
      [] revision = "r1" /\ s.kind = "int" -> 0
      [] revision = "r1" -> 400
      [] OTHER -> IF RejectedAtStart(o, s, b) THEN 400 ELSE 0

\* where a mutating handler goes after its parameters
MutationEntry == IF HasDatabaseMutex THEN "dblock" ELSE "rlock"

Start(p, o, s, n, b) ==
    /\ mainPc = "serving"
    /\ pc[p] = "idle"
    /\ \A q \in Procs : q < p => pc[q] # "idle"
    /\ op' = [op EXCEPT ![p] = o]
    /\ seg' = [seg EXCEPT ![p] = s]
    /\ body' = [body EXCEPT ![p] = b]
    /\ id' = [id EXCEPT ![p] = ParsedId(s)]
    /\ name' = [name EXCEPT ![p] =
                  IF revision = "r2" /\ RejectedAtStart(o, s, b) THEN "" ELSE n]
    /\ status' = [status EXCEPT ![p] = StartStatus(o, s, b)]
    /\ pc' = [pc EXCEPT ![p] =
                IF RejectedAtStart(o, s, b) THEN "done"
                ELSE IF o = "GET" THEN "rlock" ELSE MutationEntry]
    /\ overlap' = [overlap EXCEPT ![p] = \E q \in Procs \ {p} : InFlight(q)]
    /\ seen' = [seen EXCEPT ![p] =
                IF o = "GET" /\ FileReadable THEN {Persisted} ELSE {}]
    /\ preceded' = [preceded EXCEPT ![p] = {q \in Procs : pc[q] = "done"}]
    /\ found' = [found EXCEPT ![p] = IF o = "POST" THEN StoreOf(file) ELSE NoStore]
    /\ UNCHANGED <<revision, mainPc, created, file, DatabaseMutex,
                   jsonFileMutex, loaded, resp, wrote, ioErr, expect, ideal,
                   faults>>

\* the path parameters a request of this revision carries: r3's POST / has
\* none; the name segment of r1 and r2 is read only by postItem, and only
\* r2's requests carry more than one name
SegsOf(o) == IF revision = "r3" /\ o = "POST" THEN {MissingSeg} ELSE IdSegs
NamesOf(o) ==
    IF revision = "r3" THEN {""}
    ELSE IF revision = "r2" /\ o = "POST" THEN Names ELSE {"a"}
\* the bodies: r1 and r2 read only newItem.ID, so one name stands for all
BodiesOf ==
    IF revision = "r3" THEN Bodies
    ELSE {GoodBody(Item(i, "a")) : i \in Ids} \cup {Malformed}

StartGet(p) ==
    \E s \in SegsOf("GET"), n \in NamesOf("GET") : Start(p, "GET", s, n, NoBody)
StartDelete(p) ==
    \E s \in SegsOf("DELETE"), n \in NamesOf("DELETE") :
        Start(p, "DELETE", s, n, NoBody)
StartPost(p) ==
    \E s \in SegsOf("POST"), n \in NamesOf("POST"), b \in BodiesOf :
        Start(p, "POST", s, n, b)

\* ------------------------------------------------------------ file system
\* os.Open, io.ReadAll and os.WriteFile return an error when the file system
\* fails them (permissions, a full disk, an I/O error): whether the next
\* call fails
FaultChoices == IF faults > 0 THEN BOOLEAN ELSE {FALSE}

\* ------------------------------------------------------------ ReadJsonFile
\* j.jsonFileMutex.Lock()
ReadLock(p) ==
    /\ pc[p] = "rlock"
    /\ FileMutexFree
    /\ jsonFileMutex' = p
    /\ pc' = [pc EXCEPT ![p] = "read"]
    /\ UNCHANGED <<revision, mainPc, created, file, DatabaseMutex, op, seg,
                   id, name, body, loaded, status, resp, wrote, overlap, seen,
                   preceded, found, ioErr, expect, ideal, faults>>

\* os.Open, io.ReadAll, json.Unmarshal, the loop building itemDict, and the
\* deferred Unlock; on an error the handler answers 500 and returns
ReadJsonFile(p) ==
    /\ pc[p] = "read"
    /\ jsonFileMutex' = 0
    /\ \E fails \in FaultChoices :
        /\ faults' = IF fails THEN faults - 1 ELSE faults
        /\ IF ~fails /\ FileReadable
           THEN /\ loaded' = [loaded EXCEPT ![p] = Persisted]
                /\ pc' = [pc EXCEPT ![p] = "handle"]
                /\ UNCHANGED <<status, resp, DatabaseMutex, ioErr>>
           ELSE /\ Return(p, SetStatus(status[p], 500), ZeroItem)
                /\ ioErr' = [ioErr EXCEPT ![p] = "read"]
                /\ UNCHANGED loaded
    /\ UNCHANGED <<revision, mainPc, created, file, op, seg, id, name, body,
                   wrote, overlap, seen, preceded, found, expect, ideal>>

\* ----------------------------------------------------------------- getItem
\* the test that the id is in the collection
\*   r3: if _, ok := loadedItems[id]; !ok
\*   r1, r2: if id != loadedItems[id].ID
Present(d, k) ==
    IF revision = "r3" THEN k \in DOMAIN d ELSE k = Lookup(d, k).ID
\* the status the handlers give an id that fails the test
AbsentStatus == IF revision = "r3" THEN 404 ELSE 400

\* getItem after its load: not found, or the item encoded with status 200
GetRespond(p) ==
    /\ pc[p] = "handle"
    /\ op[p] = "GET"
    /\ IF Present(loaded[p], id[p])
       THEN Return(p, SetStatus(status[p], 200), Lookup(loaded[p], id[p]))
       ELSE Return(p, SetStatus(status[p], AbsentStatus), ZeroItem)
    /\ UNCHANGED <<revision, mainPc, created, file, jsonFileMutex, op, seg,
                   id, name, body, loaded, wrote, overlap, seen, preceded,
                   found, ioErr, expect, ideal, faults>>

\* -------------------------------------------------------------- deleteItem
\* deleteItem after its load: not found and return, or delete(loadedItems, id)
DeleteCheck(p) ==
    /\ pc[p] = "handle"
    /\ op[p] = "DELETE"
    /\ IF Present(loaded[p], id[p])
       THEN /\ loaded' = [loaded EXCEPT ![p] = Remove(loaded[p], id[p])]
            /\ pc' = [pc EXCEPT ![p] = "wlock"]
            /\ UNCHANGED <<status, resp, DatabaseMutex>>
       ELSE /\ Return(p, SetStatus(status[p], AbsentStatus), ZeroItem)
            /\ UNCHANGED loaded
    /\ UNCHANGED <<revision, mainPc, created, file, jsonFileMutex, op, seg,
                   id, name, body, wrote, overlap, seen, preceded, found,
                   ioErr, expect, ideal, faults>>

\* ---------------------------------------------------------------- postItem
\* the map key and the item of postItem's assignment
\*   r3: loadedItems[newItem.ID] = newItem
\*   r1, r2: loadedItems[newItem.ID] = Item{ID: id, Name: name}
PostKey(p) == body[p].item.ID
PostItem(p) ==
    IF revision = "r3" THEN body[p].item ELSE Item(id[p], name[p])
\* the key postItem reads back for its response
\*   r3: loadedItems[newItem.ID] ; r1, r2: loadedItems[id]
PostResponseKey(p) == IF revision = "r3" THEN body[p].item.ID ELSE id[p]

\* postItem after its load: (r1, r2: decode the body, 400 when malformed,)
\* then the insert
PostInsert(p) ==
    /\ pc[p] = "handle"
    /\ op[p] = "POST"
    /\ IF body[p].ok
       THEN /\ loaded' = [loaded EXCEPT ![p] =
                            Insert(loaded[p], PostKey(p), PostItem(p))]
            /\ pc' = [pc EXCEPT ![p] = "wlock"]
            /\ UNCHANGED <<status, resp, DatabaseMutex>>
       ELSE /\ Return(p, SetStatus(status[p], 400), ZeroItem)
            /\ UNCHANGED loaded
    /\ UNCHANGED <<revision, mainPc, created, file, jsonFileMutex, op, seg,
                   id, name, body, wrote, overlap, seen, preceded, found,
                   ioErr, expect, ideal, faults>>

\* ----------------------------------------------------------- WriteJsonFile
\* j.jsonFileMutex.Lock()
WriteLock(p) ==
    /\ pc[p] = "wlock"
    /\ FileMutexFree
    /\ jsonFileMutex' = p
    /\ pc' = [pc EXCEPT ![p] = "wtrunc"]
    /\ UNCHANGED <<revision, mainPc, created, file, DatabaseMutex, op, seg,
                   id, name, body, loaded, status, resp, wrote, overlap, seen,
                   preceded, found, ioErr, expect, ideal, faults>>

\* os.Open(j.JsonFilePath): an error when the file is absent, and then the
\* function returns it (the handlers drop it); else os.WriteFile opens the
\* file with O_TRUNC, which empties it
\* (a failing os.Open, and an os.WriteFile that cannot open the file for
\* writing, both leave the file as it is)
WriteTruncate(p) ==
    /\ pc[p] = "wtrunc"
    /\ \E fails \in FaultChoices :
        /\ faults' = IF fails THEN faults - 1 ELSE faults
        /\ IF ~fails /\ file.exists
           THEN /\ file' = FileOf(NoBytes)
                /\ pc' = [pc EXCEPT ![p] = "wwrite"]
                /\ UNCHANGED <<jsonFileMutex, ioErr>>
           ELSE /\ pc' = [pc EXCEPT ![p] = "respond"]
                /\ jsonFileMutex' = 0
                /\ ioErr' = [ioErr EXCEPT ![p] = "write"]
                /\ UNCHANGED file
    /\ UNCHANGED <<revision, mainPc, created, DatabaseMutex, op, seg, id,
                   name, body, loaded, status, resp, wrote, overlap, seen,
                   preceded, found, expect, ideal>>

\* the bytes WriteJsonFile can produce for a collection
\*   r2, r3: json.Marshal of the slice built by ranging over the map
\*   r1: json.Marshal of the map itself
MarshalledBytes(d) ==
    IF revision = "r1" THEN {MarshalMap(d)}
    ELSE {MarshalSlice(items) : items \in ItemSlices(d)}

\* os.WriteFile writes the bytes, or fails after the truncation and returns
\* its error: the file then holds a proper prefix of the document (here: no
\* bytes), which json.Unmarshal rejects; the deferred Unlock
WriteData(p) ==
    /\ pc[p] = "wwrite"
    /\ \E fails \in FaultChoices :
        /\ faults' = IF fails THEN faults - 1 ELSE faults
        /\ IF ~fails
           THEN /\ \E bytes \in MarshalledBytes(loaded[p]) :
                    /\ file' = FileOf(bytes)
                    /\ seen' = [q \in Procs |->
                                 IF op[q] = "GET" /\ InFlight(q) /\ UnmarshalOk(bytes)
                                 THEN seen[q] \cup {BuildDict(UnmarshalItems(bytes))}
                                 ELSE seen[q]]
                /\ wrote' = [wrote EXCEPT ![p] = TRUE]
                /\ UNCHANGED ioErr
           ELSE /\ ioErr' = [ioErr EXCEPT ![p] = "write"]
                /\ UNCHANGED <<file, seen, wrote>>
    /\ jsonFileMutex' = 0
    /\ pc' = [pc EXCEPT ![p] = "respond"]
    /\ UNCHANGED <<revision, mainPc, created, DatabaseMutex, op, seg, id,
                   name, body, loaded, status, resp, overlap, preceded, found,
                   expect, ideal>>

\* the end of postItem and deleteItem after WriteJsonFile returned
\*   deleteItem: r2, r3 w.WriteHeader(204); r1 writes nothing (implicit 200)
\*   postItem: json.NewEncoder(w).Encode(loadedItems[...])
SuccessStatus(p) ==
    IF op[p] = "DELETE" /\ revision # "r1" THEN 204 ELSE 200
Respond(p) ==
    /\ pc[p] = "respond"
    /\ Return(p, SetStatus(status[p], SuccessStatus(p)),
              IF op[p] = "POST" THEN Lookup(loaded[p], PostResponseKey(p))
              ELSE ZeroItem)
    /\ UNCHANGED <<revision, mainPc, created, file, jsonFileMutex, op, seg,
                   id, name, body, loaded, wrote, overlap, seen, preceded,
                   found, ioErr, expect, ideal, faults>>

\* ------------------------------------------------------- the mutation lock
\* postItem and deleteItem run with no other request about, on a store:
\* the store they leave and the status they answer
AloneStore(st, p) ==
    IF ~st.ok THEN st
    ELSE IF op[p] = "DELETE"
         THEN IF Present(st.d, id[p])
              THEN [st EXCEPT !.d = Remove(st.d, id[p])] ELSE st
         ELSE IF body[p].ok
              THEN [st EXCEPT !.d = Insert(st.d, PostKey(p), PostItem(p))]
              ELSE st
AloneStatus(st, p) ==
    IF ~st.ok THEN 500
    ELSE IF op[p] = "DELETE"
         THEN IF Present(st.d, id[p]) THEN SuccessStatus(p) ELSE AbsentStatus
         ELSE IF body[p].ok THEN SuccessStatus(p) ELSE 400

\* jsonDatabase.DatabaseMutex.Lock() blocks until the mutex is free
DatabaseMutexFree == DatabaseMutex = 0

\* jsonDatabase.DatabaseMutex.Lock(); the order of these steps is the order
\* in which the one-at-a-time run serves the mutations
LockDatabaseMutex(p) ==
    /\ pc[p] = "dblock"
    /\ DatabaseMutexFree
    /\ DatabaseMutex' = p
    /\ pc' = [pc EXCEPT ![p] = "rlock"]
    /\ ideal' = AloneStore(ideal, p)
    /\ expect' = [expect EXCEPT ![p] = AloneStatus(ideal, p)]
    /\ UNCHANGED <<revision, mainPc, created, file, jsonFileMutex, op, seg,
                   id, name, body, loaded, status, resp, wrote, overlap, seen,
                   preceded, found, ioErr, faults>>

\* ----------------------------------------------------------- specification
Next ==
    \/ MainExists
    \/ CreateLock
    \/ CreateJsonFile
    \/ \E p \in Procs : StartGet(p)
    \/ \E p \in Procs : StartDelete(p)
    \/ \E p \in Procs : StartPost(p)
    \/ \E p \in Procs : LockDatabaseMutex(p)
    \/ \E p \in Procs : ReadLock(p)
    \/ \E p \in Procs : ReadJsonFile(p)
    \/ \E p \in Procs : GetRespond(p)
    \/ \E p \in Procs : DeleteCheck(p)
    \/ \E p \in Procs : PostInsert(p)
    \/ \E p \in Procs : WriteLock(p)
    \/ \E p \in Procs : WriteTruncate(p)
    \/ \E p \in Procs : WriteData(p)
    \/ \E p \in Procs : Respond(p)

Spec == Init /\ [][Next]_vars

TypeOK ==
    /\ revision \in Revisions
    /\ mainPc \in {"exists", "create", "creating", "serving", "panicked"}
    /\ DatabaseMutex \in {0} \cup Procs
    /\ jsonFileMutex \in {0, MainHolder} \cup Procs
    /\ \A p \in Procs :
        /\ pc[p] \in {"idle", "dblock", "rlock", "read", "handle", "wlock",
                      "wtrunc", "wwrite", "respond", "done"}
        /\ status[p] \in {0, 200, 204, 400, 404, 500}
        /\ expect[p] \in {0, 200, 204, 400, 404, 500}
        /\ ioErr[p] \in {"none", "read", "write"}
        /\ preceded[p] \subseteq Procs
    /\ faults \in 0..MaxFaults

\* ================================================================= claims
\* the revisions whose handlers take DatabaseMutex (part_000, main.go 225-)
Locked == revision \in {"r2", "r3"}
\* a mutating request between the start of its load and the end of its save
InSection(p) ==
    Mutating(p) /\ pc[p] \in {"read", "handle", "wlock", "wtrunc", "wwrite"}
\* a request inside a file access of ReadJsonFile or WriteJsonFile
InFileAccess(p) == pc[p] \in {"read", "wtrunc", "wwrite"}
\* a postItem that ran to its response
Upserted(p) == op[p] = "POST" /\ pc[p] = "done" /\ wrote[p]
\* the collection holds exactly this record under its id
Holds(d, it) == it.ID \in DOMAIN d /\ d[it.ID] = it

\* C1: lost-update prevention. In the cited revisions (both lock
\* DatabaseMutex), when two upserts storing items with different ids are the
\* only mutations that ran and both have completed, under every interleaving
\* of their steps, the persisted collection holds both stored items: neither
\* save removed the other's entry.
C1_LostUpdatePrevention ==
    \A p, q \in Procs :
        ( /\ Locked
          /\ p # q
          /\ Upserted(p) /\ Upserted(q)
          /\ PostItem(p).ID # PostItem(q).ID
          /\ \A r \in Procs \ {p, q} : ~Mutating(r) )
        => /\ FileReadable
           /\ Holds(Persisted, PostItem(p))
           /\ Holds(Persisted, PostItem(q))

\* C2: every mutating handler of the source runs load, change and save in one
\* critical section: no two mutating requests are both between the start of
\* their load and the end of their save.
C2_OneCriticalSection ==
    \A p, q \in Procs : p # q => ~(InSection(p) /\ InSection(q))

\* C3: at most one of CreateJsonFile, ReadJsonFile and WriteJsonFile is inside
\* its file access at any time.
C3_FileOpsExclusive ==
    /\ \A p, q \in Procs : (InFileAccess(p) /\ InFileAccess(q)) => p = q
    /\ mainPc = "creating" => \A p \in Procs : ~InFileAccess(p)

\* C3 witness: a save is between its truncate and its write while another
\* request waits for the file mutex.
C3_Witness ==
    \E p, q \in Procs :
        /\ p # q
        /\ pc[p] = "wwrite"
        /\ pc[q] \in {"rlock", "wlock"}

\* C4: whenever the backing file exists (after startup, after any upserts and
\* deletes, and between the truncate and the write of a save) its contents
\* are a complete JSON array of items; never zero bytes.
C4_FileAlwaysValidArray ==
    (revision = "r3" /\ file.exists) => file.bytes.json = "array"

\* C5: when the file is absent at startup, startup leaves a file holding the
\* empty JSON array, so no later load fails: no request on the fresh store
\* is answered 500, and a first upsert returns the posted item.
C5_FreshStoreUsable ==
    (revision = "r3" /\ created) =>
        /\ (\A p \in Procs : ~wrote[p] /\ pc[p] # "wwrite")
              => file = FileOf(MarshalSlice(<<>>))
        /\ \A p \in Procs : pc[p] = "done" => status[p] # 500
        /\ \A p \in Procs :
              (op[p] = "POST" /\ body[p].ok /\ pc[p] = "done")
                  => status[p] = 200 /\ resp[p] = body[p].item

\* C6 as claimed: no fetch executes its load while a postItem or deleteItem
\* is between the start of its load and the end of its save.
C6_NoFetchDuringMutation ==
    \A p, q \in Procs :
        ~(revision = "r3" /\ op[p] = "GET" /\ pc[p] = "read" /\ InSection(q))

\* C6 amended: no fetch executes its load while a postItem or deleteItem is
\* inside the file access of its load or of its save; a fetch may load while
\* a mutation is between the end of its load and the start of its save.
C6_FetchLoadExcludesFileAccess ==
    \A p, q \in Procs :
        (p # q /\ op[p] = "GET" /\ pc[p] = "read")
            => ~(Mutating(q) /\ InFileAccess(q))

\* C6 witness: a fetch is inside its load while a mutation that has loaded
\* has not yet saved.
C6_Witness ==
    \E p, q \in Procs :
        /\ revision = "r3"
        /\ op[p] = "GET" /\ pc[p] = "read"
        /\ Mutating(q) /\ pc[q] \in {"handle", "wlock"}

C8_UpsertStoresPayload ==
    \A p \in Procs :
        (Locked /\ op[p] = "POST" /\ body[p].ok) =>
            /\ pc[p] = "wlock" =>
                  /\ FileReadable
                  /\ \A k \in (DOMAIN loaded[p] \cup DOMAIN Persisted)
                                  \ {body[p].item.ID} :
                        /\ k \in DOMAIN loaded[p]
                        /\ k \in DOMAIN Persisted
                        /\ loaded[p][k] = Persisted[k]
            /\ (pc[p] = "respond" /\ wrote[p]) =>
                  /\ FileReadable
                  /\ Persisted = loaded[p]
                  /\ Holds(Persisted, body[p].item)
            /\ (pc[p] = "done" /\ status[p] = 200) => resp[p] = body[p].item

\* C9: a fetch of an integer id that is no key of the loaded collection
\* answers 404, with no item.
C9_FetchUnknownNotFound ==
    \A p \in Procs :
        ( /\ Locked
          /\ op[p] = "GET" /\ pc[p] = "done"
          /\ seg[p].kind = "int"
          /\ status[p] # 500
          /\ id[p] \notin DOMAIN loaded[p] )
        => status[p] = 404 /\ resp[p] = ZeroItem

\* C10: a delete whose id is no key of the loaded collection answers 404,
\* saves nothing (the file is unchanged) and releases DatabaseMutex.
C10_DeleteAbsentNotFound ==
    [][\A p \in Procs :
          ( /\ Locked
            /\ op[p] = "DELETE" /\ pc[p] = "handle"
            /\ id[p] \notin DOMAIN loaded[p]
            /\ pc'[p] # "handle" )
          => /\ pc'[p] = "done"
             /\ status'[p] = 404
             /\ file' = file
             /\ ~wrote'[p]
             /\ DatabaseMutex' # p]_vars

\* C2 in the revisions that lock DatabaseMutex (part_000, main.go 355-407):
\* there the critical section is exclusive.
C2_LockedRevisionsExclusive ==
    Locked => C2_OneCriticalSection

\* a deleteItem that answered 204, and a getItem of the same id that arrived
\* after that answer
DeletedThenFetched(p, q) ==
    /\ op[p] = "DELETE" /\ pc[p] = "done" /\ status[p] = 204
    /\ op[q] = "GET" /\ seg[q].kind = "int" /\ id[q] = id[p]
    /\ p \in preceded[q]
\* an upsert of this id that had not answered when request p arrived, and so
\* may have saved after p did
UpsertedSince(p, x) ==
    \E r \in Procs \ preceded[p] :
        op[r] = "POST" /\ body[r].ok /\ PostKey(r) = x /\ pc[r] # "idle"

\* C11: delete-then-fetch. In main.go 332-383, when a delete of id X has
\* answered 204 and a fetch of X arrives after that answer and loads the
\* collection without an error, the fetch answers 404 with no item, unless an
\* upsert of X was served after the delete began.
C11_DeleteThenFetch ==
    \A p, q \in Procs :
        ( /\ revision = "r3"
          /\ DeletedThenFetched(p, q)
          /\ pc[q] = "done" /\ ioErr[q] = "none"
          /\ ~UpsertedSince(p, id[p]) )
        => status[q] = 404 /\ resp[q] = ZeroItem
\* the same, when in addition no save failed
C11_DeleteThenFetchWhenSavesSucceed ==
    (\A p \in Procs : ioErr[p] # "write") => C11_DeleteThenFetch

\* C12: in main.go 225-486, a request whose ReadJsonFile or WriteJsonFile
\* returned an error answers 500, and the process is still serving.
C12_StorageErrorsAre500 ==
    \A p \in Procs :
        (revision = "r3" /\ pc[p] = "done" /\ ioErr[p] # "none")
        => status[p] = 500 /\ mainPc = "serving"

\* C13: when ReadJsonFile returns an error inside postItem or deleteItem, the
\* handler returns at once: that step leaves the file as it is and releases
\* DatabaseMutex, and the request never reaches WriteJsonFile (it has
\* returned, holds no mutex and has written nothing).
C13_ReadFailureStopsMutation ==
    /\ [](\A p \in Procs :
            (Mutating(p) /\ ioErr[p] = "read")
            => /\ pc[p] = "done"
               /\ ~wrote[p]
               /\ DatabaseMutex # p /\ jsonFileMutex # p)
    /\ [][\A p \in Procs :
            (Mutating(p) /\ pc[p] = "read" /\ ioErr'[p] = "read")
            => /\ pc'[p] = "done"
               /\ file' = file
               /\ DatabaseMutex' = 0]_vars
C13_Witness ==
    \E p \in Procs :
        /\ revision = "r3"
        /\ Mutating(p) /\ ioErr[p] = "read" /\ status[p] = 500
        /\ file.bytes.json = "array"
        /\ \E q \in Procs : pc[q] = "dblock"

\* a request main.go 225-486 must refuse: getItem and deleteItem without an
\* integer id segment, postItem with a body that is not well-formed JSON
Invalid(p) ==
    /\ pc[p] # "idle"
    /\ IF op[p] = "POST" THEN ~body[p].ok ELSE seg[p].kind # "int"

\* C14: in main.go 225-486 a request that fails validation has returned with
\* status 400 by the step that received it; it loaded and saved nothing and
\* holds neither mutex, and that step changes neither the file nor a mutex.
C14_ValidationFailures ==
    /\ [](\A p \in Procs :
            (revision = "r3" /\ Invalid(p))
            => /\ pc[p] = "done" /\ status[p] = 400
               /\ loaded[p] = EmptyDict /\ ~wrote[p] /\ ioErr[p] = "none"
               /\ DatabaseMutex # p /\ jsonFileMutex # p)
    /\ [][\A p \in Procs :
            (revision = "r3" /\ pc[p] = "idle" /\ Invalid(p)')
            => /\ file' = file
               /\ DatabaseMutex' = DatabaseMutex
               /\ jsonFileMutex' = jsonFileMutex]_vars
C14_Witness ==
    \E p, q \in Procs :
        /\ revision = "r3"
        /\ Invalid(p) /\ op[p] = "POST" /\ status[p] = 400
        /\ p \in preceded[q]
        /\ op[q] = "POST" /\ pc[q] = "done" /\ status[q] = 200 /\ wrote[q]
        /\ DatabaseMutex = 0 /\ jsonFileMutex = 0

\* every upsert and delete that arrived has returned
MutationsCompleted == \A p \in Procs : Mutating(p) => pc[p] = "done"
\* no load of a mutation failed on a store that was readable
LoadsAsAlone ==
    \A p \in Procs : (Mutating(p) /\ ioErr[p] = "read") => expect[p] = 500

\* C15: in main.go 355-407, once the upserts and deletes that arrived have
\* all returned (none having failed to load a readable store), the file holds
\* the collection that results from serving them one at a time in the order
\* in which they locked DatabaseMutex, and each of them answered the status
\* it answers in that one-at-a-time run.
C15_LockOrderIsSerialOrder ==
    ( /\ revision = "r3"
      /\ MutationsCompleted
      /\ LoadsAsAlone )
    => /\ FileReadable = ideal.ok
       /\ ideal.ok => Persisted = ideal.d
       /\ \A p \in Procs :
            (Mutating(p) /\ expect[p] # 0) => status[p] = expect[p]
\* the same, when in addition no save failed
C15_SerialWhenSavesSucceed ==
    (\A p \in Procs : ioErr[p] # "write") => C15_LockOrderIsSerialOrder

\* the set of {id, name} records of a collection
RecordsOf(d) == {d[k] : k \in DOMAIN d}
\* two upserts with the same body, both answered 200, the second arriving
\* after the first answered, and no other mutation since the first arrived
SameUpsertTwice(p, q) ==
    /\ op[p] = "POST" /\ op[q] = "POST"
    /\ body[p].ok /\ body[q] = body[p]
    /\ p \in preceded[q]
    /\ pc[q] = "done" /\ status[p] = 200 /\ status[q] = 200
    /\ \A r \in Procs \ {p, q} : Mutating(r) => r \in preceded[p]

\* C16: upsert idempotence. In main.go 385-407, when the same upsert is
\* performed twice in a row, the file after the second holds the same set of
\* records as it held after the first, and both answer the same item.
C16_UpsertIdempotent ==
    \A p, q \in Procs :
        (revision = "r3" /\ SameUpsertTwice(p, q))
        => /\ found[q].ok /\ FileReadable
           /\ RecordsOf(Persisted) = RecordsOf(found[q].d)
           /\ resp[q] = resp[p]
\* the same, when in addition no save failed
C16_IdempotentWhenSavesSucceed ==
    (\A p \in Procs : ioErr[p] # "write") => C16_UpsertIdempotent

\* request p's WriteJsonFile writes its bytes in this step
Saves(p) == pc[p] = "wwrite" /\ ~wrote[p] /\ wrote'[p]

\* C17: round trip. Right after WriteJsonFile has written a collection,
\* ReadJsonFile succeeds on the file and returns a collection with the same
\* set of {id, name} records, whatever the order of the records written.
C17_RoundTrip ==
    [][\A p \in Procs :
          Saves(p)
          => /\ FileReadable'
             /\ RecordsOf(Persisted') = RecordsOf(loaded[p])]_vars
\* the same for main.go 225-486 alone
C17_RoundTripLatestRevision ==
    [][\A p \in Procs :
          (revision = "r3" /\ Saves(p))
          => /\ FileReadable'
             /\ RecordsOf(Persisted') = RecordsOf(loaded[p])]_vars

\* main() is past its call of CreateJsonFile, and that call returned an error:
\* only then is there still no file
CreateFailed ==
    mainPc \notin {"exists", "create", "creating"} /\ ~file.exists

\* C18: in a run whose CreateJsonFile returned an error, main() has panicked
\* and no request is ever received by a handler.
C18_CreateFailureIsFatal ==
    CreateFailed
    => /\ mainPc = "panicked"
       /\ \A p \in Procs : pc[p] = "idle" /\ op[p] = "none" /\ status[p] = 0
C18_Witness ==
    CreateFailed /\ mainPc = "panicked" /\ ~created /\ jsonFileMutex = 0

\* a step of request p's handler after the request was received
HandlerStep(p) ==
    \/ LockDatabaseMutex(p) \/ ReadLock(p) \/ ReadJsonFile(p)
    \/ GetRespond(p) \/ DeleteCheck(p) \/ PostInsert(p)
    \/ WriteLock(p) \/ WriteTruncate(p) \/ WriteData(p) \/ Respond(p)
\* request p is at a Lock() call
AtDatabaseLock(p) == pc[p] = "dblock"
AtFileLock(p) == pc[p] \in {"rlock", "wlock"}

\* C19: no deadlock and no leaked lock. A request at DatabaseMutex.Lock()
\* holds no mutex and a request at jsonFileMutex.Lock() does not hold
\* jsonFileMutex (so the only order of taking both is DatabaseMutex, then
\* jsonFileMutex); whenever some request has not returned, some such request
\* can take a step; and when every request received has returned, both
\* mutexes are free.
C19_NoDeadlockNoLeak ==
    /\ \A p \in Procs :
        /\ AtDatabaseLock(p) => (DatabaseMutex # p /\ jsonFileMutex # p)
        /\ AtFileLock(p) => jsonFileMutex # p
        /\ (DatabaseMutex = p \/ jsonFileMutex = p) => InFlight(p)
    /\ (\E p \in Procs : InFlight(p))
       => \E p \in Procs : InFlight(p) /\ ENABLED HandlerStep(p)
    /\ (mainPc = "serving" /\ \A p \in Procs : ~InFlight(p))
       => (DatabaseMutex = 0 /\ jsonFileMutex = 0)
C19_Witness ==
    \E p, q \in Procs :
        /\ revision = "r3"
        /\ pc[p] = "wwrite" /\ DatabaseMutex = p /\ jsonFileMutex = p
        /\ AtDatabaseLock(q)
        /\ ~ENABLED HandlerStep(q)

\* no two records of the array carry the same id
DistinctIds(items) ==
    \A i, j \in 1..Len(items) : items[i].ID = items[j].ID => i = j
\* every key of the map is the id of the item under it
KeyedById(d) == \A k \in DOMAIN d : d[k].ID = k
\* request p is inside its call of WriteJsonFile(loadedItems)
InWriteJsonFile(p) == pc[p] \in {"wlock", "wtrunc", "wwrite"}
IdentityKey ==
    /\ FileReadable => DistinctIds(UnmarshalItems(file.bytes))
    /\ \A p \in Procs : InWriteJsonFile(p) => KeyedById(loaded[p])

\* C20: identity-key invariant. In part_000 and main.go 225-486 the persisted
\* array never holds two records with the same id, and every collection a
\* handler passes to WriteJsonFile has each item under its own id.
C20_IdentityKeyInvariant == Locked => IdentityKey
\* the same for main.go 225-486 alone
C20_IdentityKeyLatestRevision == revision = "r3" => IdentityKey
====
